---- MODULE Spec2Model ----
(***************************************************************************)
(* Model of otaserver/coap.py: the CoapController (firmware catalog and    *)
(* CoAP resource tree) over a storage directory that an out-of-band        *)
(* process changes while requests are served.                              *)
(*                                                                         *)
(* A Python str is a sequence of one-character strings, a bytes object a   *)
(* sequence of byte tokens, and the outcome of a call a record             *)
(* [tag, val]: tag "str" or "bytes" for a returned value, "raise" for an   *)
(* exception that leaves the call (val names its class).                   *)
(***************************************************************************)
EXTENDS Integers, Sequences, FiniteSets, Bags, TLC

\* Largest number of entries of the storage directory.
MaxFiles == 2

(***************************************************************************)
(* Python values                                                           *)
(***************************************************************************)
Str(s) == [tag |-> "str", val |-> s]

Bytes(b) == [tag |-> "bytes", val |-> b]

Raise(e) == [tag |-> "raise", val |-> <<e>>]

NoResponse == [tag |-> "none", val |-> <<>>]

\* int(c, 16) of one character, -1 when c is no hexadecimal digit.
DigitVal(c) ==
    CASE c = "0" -> 0 [] c = "1" -> 1 [] c = "2" -> 2 [] c = "3" -> 3
      [] c = "4" -> 4 [] c = "5" -> 5 [] c = "6" -> 6 [] c = "7" -> 7
      [] c = "8" -> 8 [] c = "9" -> 9
      [] c \in {"a", "A"} -> 10 [] c \in {"b", "B"} -> 11
      [] c \in {"c", "C"} -> 12 [] c \in {"d", "D"} -> 13
      [] c \in {"e", "E"} -> 14 [] c \in {"f", "F"} -> 15
      [] OTHER -> -1

RECURSIVE DigitsVal(_, _)
DigitsVal(s, acc) ==
    IF s = <<>> THEN acc
    ELSE IF DigitVal(Head(s)) < 0 THEN -1
    ELSE DigitsVal(Tail(s), acc * 16 + DigitVal(Head(s)))

\* int(s, 16): an optional 0x / 0X prefix, then hexadecimal digits of either
\* case; -1 stands for ValueError.  (Signs, blanks and digit-group
\* underscores, which int() also takes, do not occur in the names modelled.)
int16(s) ==
    LET d == IF Len(s) >= 2 /\ s[1] = "0" /\ s[2] \in {"x", "X"}
             THEN SubSeq(s, 3, Len(s)) ELSE s
    IN  IF d = <<>> THEN -1 ELSE DigitsVal(d, 0)

HexChars == <<"0", "1", "2", "3", "4", "5", "6", "7",
              "8", "9", "a", "b", "c", "d", "e", "f">>

RECURSIVE HexDigitsOf(_)
HexDigitsOf(n) ==
    IF n < 16 THEN <<HexChars[n + 1]>>
    ELSE HexDigitsOf(n \div 16) \o <<HexChars[(n % 16) + 1]>>

\* str(hex(n)) for n >= 0: "0x" and lowercase digits, no leading zeros.
hex(n) == <<"0", "x">> \o HexDigitsOf(n)

\* max() of a non-empty list of integers.
max(vs) == CHOOSE v \in {vs[i] : i \in 1..Len(vs)} :
               \A i \in 1..Len(vs) : vs[i] <= v

\* set(seq): the set of the elements of a list.
set(seq) == {seq[i] : i \in 1..Len(seq)}

(***************************************************************************)
(* Filename codec (otaserver/firmware.py)                                  *)
(***************************************************************************)
Delim == "_"

RECURSIVE SplitAcc(_, _, _)
SplitAcc(s, cur, out) ==
    IF s = <<>> THEN Append(out, cur)
    ELSE IF Head(s) = Delim THEN SplitAcc(Tail(s), <<>>, Append(out, cur))
    ELSE SplitAcc(Tail(s), Append(cur, Head(s)), out)

\* The fields of a name, split at the delimiter.
Split(s) == SplitAcc(s, <<>>, <<>>)

\* (slot, application id, version hex string) of a name that follows the
\* convention slot_appid_version_rest; the empty result for any other name.
get_info_from_filename(filename) ==
    LET p == Split(filename)
    IN  IF Len(p) >= 4 /\ int16(p[3]) >= 0 THEN SubSeq(p, 1, 3) ELSE <<>>

(***************************************************************************)
(* The storage directory: a sequence, in listing order, of files           *)
(* [name, data].                                                           *)
(***************************************************************************)
F_a_b_9 == <<"a", "_", "b", "_", "0", "x", "9", "_", "f">>
F_a_b_a == <<"a", "_", "b", "_", "0", "x", "a", "_", "f">>
F_a_b_10 == <<"a", "_", "b", "_", "0", "x", "1", "0", "_", "f">>
F_b_a_10 == <<"b", "_", "a", "_", "0", "x", "1", "0", "_", "f">>
F_a_b_X1F == <<"a", "_", "b", "_", "0", "X", "1", "F", "_", "f">>
F_c_b_9 == <<"c", "_", "b", "_", "0", "x", "9", "_", "f">>
F_README == <<"R", "E", "A", "D", "M", "E">>

\* The names files are created under.
Pool == {F_a_b_9, F_a_b_a, F_a_b_10, F_b_a_10, F_a_b_X1F, F_c_b_9, F_README}

\* The content a file is created with: bytes that are no text (ff, 00),
\* then bytes that differ from file to file.
DataOf(name) == <<"ff", "00">> \o name

\* os.listdir(fw_path)
listdir(d) == [i \in 1..Len(d) |-> d[i].name]

\* os.path.isfile(os.path.join(fw_path, name))
isfile(d, name) == \E i \in 1..Len(d) : d[i].name = name

\* open(os.path.join(fw_path, name), 'rb').read(), for a file that exists.
read(d, name) == d[CHOOSE i \in 1..Len(d) : d[i].name = name].data

(***************************************************************************)
(* Firmware catalog (the lookups of CoapController)                        *)
(***************************************************************************)
\* The list comprehension of get_latest_firmware_version, entry by entry:
\* the versions selected so far, or the exception that ends the scan.
RECURSIVE ScanVersions(_, _, _, _)
ScanVersions(l, appid, slot, acc) ==
    IF l = <<>> THEN [exc |-> "", vs |-> acc]
    ELSE LET info == get_info_from_filename(Head(l))
         IN  IF Len(info) < 2 THEN [exc |-> "IndexError", vs |-> acc]
             ELSE IF ~(info[2] = appid /\ info[1] = slot)
                  THEN ScanVersions(Tail(l), appid, slot, acc)
             ELSE IF Len(info) < 3 THEN [exc |-> "IndexError", vs |-> acc]
             ELSE IF int16(info[3]) < 0 THEN [exc |-> "ValueError", vs |-> acc]
             ELSE ScanVersions(Tail(l), appid, slot,
                               Append(acc, int16(info[3])))

\* get_latest_firmware_version(appid, slot) on directory d.
get_latest_firmware_version(d, appid, slot) ==
    LET all_firmwares == listdir(d)
        scan == ScanVersions(all_firmwares, appid, slot, <<>>)
    IN  IF all_firmwares = <<>> THEN Str(<<>>)
        ELSE IF scan.exc # "" THEN Raise(scan.exc)
        ELSE IF scan.vs = <<>> THEN Str(<<>>)
        ELSE Str(hex(max(scan.vs)))

\* get_latest_firmware_filename from its second listing on: the names whose
\* decoded fields, as a set, are {slot, appid, version}; the first of them.
match_filename(d, appid, slot, version) ==
    LET info == {slot, appid, version}
        match == SelectSeq(listdir(d),
                     LAMBDA fw : set(get_info_from_filename(fw)) = info)
    IN  IF match = <<>> THEN Str(<<>>) ELSE Str(match[1])

\* get_latest_firmware_filename(appid, slot), its first listing made on d1
\* and its second on d2.
filename_at(d1, d2, appid, slot) ==
    LET version == get_latest_firmware_version(d1, appid, slot)
    IN  IF version.tag = "raise" THEN version
        ELSE IF version.val = <<>> THEN Str(<<>>)
        ELSE match_filename(d2, appid, slot, version.val)

\* open(filename, 'r').read(): the content as text.
open_read_text(d, filename) ==
    IF ~isfile(d, filename) THEN Raise("FileNotFoundError")
    ELSE Str(read(d, filename))

\* open(filename, 'rb').read(): the content, or the error of open() for a
\* file that is not there.
open_read(d, filename) ==
    IF ~isfile(d, filename) THEN Raise("FileNotFoundError")
    ELSE Bytes(read(d, filename))

\* get_latest_firmware_binary from the existence check on, the check made
\* on d3 and the open on d4.
read_binary(d3, d4, filename) ==
    IF ~isfile(d3, filename) THEN Str(<<>>)
    ELSE open_read(d4, filename)

\* get_latest_firmware_binary(appid, slot), its four filesystem steps made
\* on d1 .. d4.  With no filename, the .format of the warning is applied to
\* the None that logger.warning returns.
binary_at(d1, d2, d3, d4, appid, slot) ==
    LET filename == filename_at(d1, d2, appid, slot)
    IN  IF filename.tag = "raise" THEN filename
        ELSE IF filename.val = <<>> THEN Raise("AttributeError")
        ELSE read_binary(d3, d4, filename.val)

\* The three lookups on a directory that does not change during the call.
get_latest_firmware_filename(d, appid, slot) == filename_at(d, d, appid, slot)

get_latest_firmware_binary(d, appid, slot) ==
    binary_at(d, d, d, d, appid, slot)

\* render_get of the resource classes: the payload of the CONTENT message,
\* or the exception of the lookup.  (.encode('ascii') keeps an ASCII str.)
render_get(kind, d, appid, slot) ==
    CASE kind = "version" -> get_latest_firmware_version(d, appid, slot)
      [] kind = "name" -> get_latest_firmware_filename(d, appid, slot)
      [] kind = "firmware" -> get_latest_firmware_binary(d, appid, slot)

(***************************************************************************)
(* Resource tree (resource.Site): a bag of resources, each with the path   *)
(* it is registered at and the (appid, slot) it was constructed with.      *)
(***************************************************************************)
Resource(path, kind, appid, slot) ==
    [path |-> path, kind |-> kind, appid |-> appid, slot |-> slot]

NoResource == Resource(<<>>, "none", <<>>, <<>>)

VersionPath(appid) == <<appid, <<"version">>>>

NamePath(appid, slot) == <<appid, slot, <<"name">>>>

FirmwarePath(appid, slot) == <<appid, slot, <<"firmware">>>>

\* The resources registered at a path.
ResourcesAt(site, path) == {e \in BagToSet(site) : e.path = path}

\* Site.add_resource keeping the resource already registered at the path.
add_resource_keep(site, r) ==
    IF ResourcesAt(site, r.path) # {} THEN site ELSE site (+) SetToBag({r})

\* Site.add_resource adding the resource beside those at the path.
add_resource_append(site, r) == site (+) SetToBag({r})

\* Site.add_resource(path, resource): the path is a dictionary key, a
\* resource registered at it before is replaced.
add_resource(site, r) ==
    [e \in {x \in BagToSet(site) : x.path # r.path} |-> site[e]]
        (+) SetToBag({r})

\* The unpacking slot, app_id, _ = get_info_from_filename(filename) fails.
add_resources_raises(filename) == Len(get_info_from_filename(filename)) # 3

\* add_resources(filename), for a name whose decoding unpacks.
add_resources(site, filename) ==
    LET info == get_info_from_filename(filename)
        slot == info[1]
        app_id == info[2]
    IN  add_resource(
          add_resource(
            add_resource(site,
              Resource(VersionPath(app_id), "version", app_id, slot)),
            Resource(NamePath(app_id, slot), "name", app_id, slot)),
          Resource(FirmwarePath(app_id, slot), "firmware", app_id, slot))

\* History: the (appid, slot) of the file registered last, per appid.
LastRegistered(last, filename) ==
    LET info == get_info_from_filename(filename)
    IN  {p \in last : p.appid # info[2]}
          \cup {[appid |-> info[2], slot |-> info[1]]}

(***************************************************************************)
(* State                                                                   *)
(***************************************************************************)
VARIABLES
    dir,        \* the storage directory fw_path
    pc,         \* position of CoapController.__init__
    todo,       \* the names __init__ has still to register
    initial,    \* the listing __init__ made
    root_coap,  \* the resource tree
    lastReg,    \* history: last registered slot per appid
    rpc,        \* position of the request being served
    rres,       \* the resource serving it
    rver,       \* its local variable version
    rfile,      \* its local variable filename
    rfs,        \* history: how the directory changed during the request
    resp        \* what the request handler returned or raised

vars == <<dir, pc, todo, initial, root_coap, lastReg,
          rpc, rres, rver, rfile, rfs, resp>>

ctor == <<pc, todo, initial, root_coap, lastReg>>

request == <<rpc, rres, rver, rfile, resp>>

Files == {[name |-> n, data |-> DataOf(n)] : n \in Pool}

Dirs ==
    {d \in UNION {[1..n -> Files] : n \in 0..MaxFiles} :
        \A i, j \in 1..Len(d) : d[i].name = d[j].name => i = j}

Init ==
    /\ dir \in Dirs
    /\ pc = "listdir"
    /\ todo = <<>>
    /\ initial = <<>>
    /\ root_coap = EmptyBag
    /\ lastReg = {}
    /\ rpc = "idle"
    /\ rres = NoResource
    /\ rver = <<>>
    /\ rfile = <<>>
    /\ rfs = "none"
    /\ resp = NoResponse

(***************************************************************************)
(* The out-of-band process that manages the directory                      *)
(***************************************************************************)
InFlight == rpc \notin {"idle", "done"}

\* The request as the directory changes: one in flight goes on and the
\* change is recorded ("del": files were deleted and none added; "del_open":
\* the same, the first of them after the existence check had passed); a
\* finished one, kept only while the directory is as it left it, is
\* retired.
RequestSees(change) ==
    IF InFlight
    THEN /\ rfs' = IF change # "del" THEN "mixed"
                   ELSE IF rfs # "none" THEN rfs
                   ELSE IF rpc = "open" THEN "del_open"
                   ELSE "del"
         /\ UNCHANGED request
    ELSE /\ rfs' = "none"
         /\ rpc' = "idle"
         /\ rres' = [path |-> <<>>, kind |-> "none",
                     appid |-> <<>>, slot |-> <<>>]
         /\ resp' = [tag |-> "none", val |-> <<>>]
         /\ UNCHANGED <<rver, rfile>>

\* A file appears, anywhere in the listing order.
FsAdd ==
    /\ Len(dir) < MaxFiles
    /\ \E f \in Files, i \in 1..(Len(dir) + 1) :
          /\ ~isfile(dir, f.name)
          /\ dir' = SubSeq(dir, 1, i - 1) \o <<f>> \o SubSeq(dir, i, Len(dir))
    /\ RequestSees("add")
    /\ UNCHANGED ctor

\* A file is deleted.
FsDelete ==
    /\ \E i \in 1..Len(dir) :
          dir' = SubSeq(dir, 1, i - 1) \o SubSeq(dir, i + 1, Len(dir))
    /\ RequestSees("del")
    /\ UNCHANGED ctor

(***************************************************************************)
(* CoapController.__init__                                                 *)
(***************************************************************************)
\* for filename in os.listdir(fw_path): the listing
CtorListdir ==
    /\ pc = "listdir"
    /\ todo' = listdir(dir)
    /\ initial' = listdir(dir)
    /\ pc' = "register"
    /\ UNCHANGED <<dir, root_coap, lastReg, request, rfs>>

\* self.add_resources(filename), one turn of the loop
CtorRegister ==
    /\ pc = "register"
    /\ todo # <<>>
    /\ IF add_resources_raises(Head(todo))
       THEN /\ pc' = "raised"
            /\ UNCHANGED <<todo, root_coap, lastReg>>
       ELSE /\ root_coap' = add_resources(root_coap, Head(todo))
            /\ lastReg' = LastRegistered(lastReg, Head(todo))
            /\ todo' = Tail(todo)
            /\ pc' = pc
    /\ UNCHANGED <<dir, initial, request, rfs>>

\* The server context created although names of the listing are left.
CtorCreateContextEarly ==
    /\ pc = "register"
    /\ pc' = "serving"
    /\ todo' = <<>>
    /\ initial' = <<>>
    /\ UNCHANGED <<dir, root_coap, lastReg, request, rfs>>

\* asyncio.async(Context.create_server_context(...)), after the loop: the
\* transport accepts requests from here on.  The listing of the loop is
\* released.
CtorCreateContext ==
    /\ pc = "register"
    /\ todo = <<>>
    /\ pc' = "serving"
    /\ todo' = <<>>
    /\ initial' = <<>>
    /\ UNCHANGED <<dir, root_coap, lastReg, request, rfs>>

\* add_resources(filename) called for a file of the directory while the
\* server runs (between requests: the handlers never yield).
AddResources ==
    /\ pc = "serving"
    /\ ~InFlight
    /\ \E filename \in set(listdir(dir)) :
          IF add_resources_raises(filename)
          THEN UNCHANGED <<root_coap, lastReg>>
          ELSE /\ root_coap' = add_resources(root_coap, filename)
               /\ lastReg' = LastRegistered(lastReg, filename)
    /\ UNCHANGED <<dir, pc, todo, initial, request, rfs>>

(***************************************************************************)
(* A GET request, step by step: one step per filesystem call               *)
(***************************************************************************)
\* The handler returns or raises.
Finish(outcome) ==
    /\ rpc' = "done"
    /\ resp' = outcome
    /\ rver' = <<>>
    /\ rfile' = <<>>

\* The site dispatches a request to the resource registered at its path.
GetStart ==
    /\ pc = "serving"
    /\ ~InFlight
    /\ \E r \in BagToSet(root_coap) : rres' = r
    /\ rpc' = "version"
    /\ rver' = <<>>
    /\ rfile' = <<>>
    /\ rfs' = "none"
    /\ resp' = NoResponse
    /\ UNCHANGED <<dir, ctor>>

\* get_latest_firmware_version, reached from each of the three resources,
\* and what follows it up to the next filesystem call.
StepVersion ==
    /\ rpc = "version"
    /\ LET version == get_latest_firmware_version(dir, rres.appid, rres.slot)
       IN  IF rres.kind = "version" \/ version.tag = "raise"
           THEN Finish(version)
           ELSE IF version.val = <<>>
           THEN Finish(IF rres.kind = "name" THEN Str(<<>>)
                       ELSE Raise("AttributeError"))
           ELSE /\ rpc' = "filename"
                /\ rver' = version.val
                /\ UNCHANGED <<rfile, resp>>
    /\ UNCHANGED <<dir, ctor, rres, rfs>>

\* The second listing of get_latest_firmware_filename and the match.
StepFilename ==
    /\ rpc = "filename"
    /\ LET filename == match_filename(dir, rres.appid, rres.slot, rver)
       IN  IF rres.kind = "name"
           THEN Finish(filename)
           ELSE IF filename.val = <<>>
           THEN Finish(Raise("AttributeError"))
           ELSE /\ rpc' = "isfile"
                /\ rfile' = filename.val
                /\ UNCHANGED <<rver, resp>>
    /\ UNCHANGED <<dir, ctor, rres, rfs>>

\* os.path.isfile(filename)
StepIsfile ==
    /\ rpc = "isfile"
    /\ IF isfile(dir, rfile)
       THEN /\ rpc' = "open"
            /\ UNCHANGED <<rver, rfile, resp>>
       ELSE Finish(Str(<<>>))
    /\ UNCHANGED <<dir, ctor, rres, rfs>>

\* open(filename, 'rb').read()
StepOpen ==
    /\ rpc = "open"
    /\ Finish(open_read(dir, rfile))
    /\ UNCHANGED <<dir, ctor, rres, rfs>>

Next ==
    \/ FsAdd
    \/ FsDelete
    \/ CtorListdir
    \/ CtorRegister
    \/ CtorCreateContext
    \/ AddResources
    \/ GetStart
    \/ StepVersion
    \/ StepFilename
    \/ StepIsfile
    \/ StepOpen

Spec == Init /\ [][Next]_vars

(***************************************************************************)
(* Consistency of the step-by-step handlers with the lookups               *)
(***************************************************************************)
Done(kind) == rpc = "done" /\ rres.kind = kind

\* A finished request that saw one directory, which is still the directory.
Quiet == rpc = "done" /\ rfs = "none"

StepsAgreeWithLookups ==
    Quiet => resp = render_get(rres.kind, dir, rres.appid, rres.slot)

TypeOK ==
    /\ dir \in Dirs
    /\ pc \in {"listdir", "register", "serving", "raised"}
    /\ rpc \in {"idle", "version", "filename", "isfile", "open", "done"}
    /\ rfs \in {"none", "del", "del_open", "mixed"}
    /\ resp.tag \in {"none", "str", "bytes", "raise"}

(***************************************************************************)
(* Vocabulary of the properties                                            *)
(***************************************************************************)
Conforms(name) == get_info_from_filename(name) # <<>>

AllConform(d) == \A i \in 1..Len(d) : Conforms(d[i].name)

\* The entries of d that decode to the pair (appid, slot).
Matching(d, appid, slot) ==
    {i \in 1..Len(d) :
        /\ Conforms(d[i].name)
        /\ get_info_from_filename(d[i].name)[1] = slot
        /\ get_info_from_filename(d[i].name)[2] = appid}

\* The version number of entry i of d.
VersionOf(d, i) == int16(get_info_from_filename(d[i].name)[3])

\* d without the entries that decode to another pair than (appid, slot).
Isolate(d, appid, slot) ==
    SelectSeq(d, LAMBDA f :
        \/ ~Conforms(f.name)
        \/ /\ get_info_from_filename(f.name)[1] = slot
           /\ get_info_from_filename(f.name)[2] = appid)

\* d without the entries the codec cannot decode.
ConformingOnly(d) == SelectSeq(d, LAMBDA f : Conforms(f.name))

\* The empty value of each lookup.
EmptyValue(kind) == IF kind = "firmware" THEN Bytes(<<>>) ELSE Str(<<>>)

\* The three resources add_resources registers for a name.
HasThreeResources(site, name) ==
    LET info == get_info_from_filename(name)
    IN  /\ ResourcesAt(site, VersionPath(info[2])) # {}
        /\ ResourcesAt(site, NamePath(info[2], info[1])) # {}
        /\ ResourcesAt(site, FirmwarePath(info[2], info[1])) # {}

\* The names of the pool that decode.
Conforming == {f : f \in {n \in Pool : Conforms(n)}}

\* For each of them, the names that decode to the same (slot, appid).
SamePair ==
    [f \in Conforming |->
        {g : g \in {n \in Conforming :
                      SubSeq(get_info_from_filename(n), 1, 2)
                        = SubSeq(get_info_from_filename(f), 1, 2)}}]

\* Exactly one resource, once, at the path.
ExactlyOneAt(site, path) ==
    /\ Cardinality(ResourcesAt(site, path)) = 1
    /\ \A e \in ResourcesAt(site, path) : CopiesIn(e, site) = 1

(***************************************************************************)
(* Properties                                                              *)
(***************************************************************************)

\* C1: whenever some entry of the directory decodes to the queried pair,
\* get_latest_firmware_version returns hex() of the numeric maximum of the
\* versions of the entries that decode to that pair.
C1_LatestIsMaximum ==
    (Quiet /\ rres.kind = "version"
       /\ Matching(dir, rres.appid, rres.slot) # {})
    => \E i \in Matching(dir, rres.appid, rres.slot) :
          /\ resp = Str(hex(VersionOf(dir, i)))
          /\ \A j \in Matching(dir, rres.appid, rres.slot) :
                VersionOf(dir, j) <= VersionOf(dir, i)

\* Supporting C1: the same, in a directory all of whose entries decode.
LatestIsMaximumIfAllConform ==
    (Quiet /\ rres.kind = "version" /\ AllConform(dir)
       /\ Matching(dir, rres.appid, rres.slot) # {})
    => \E i \in Matching(dir, rres.appid, rres.slot) :
          /\ resp = Str(hex(VersionOf(dir, i)))
          /\ \A j \in Matching(dir, rres.appid, rres.slot) :
                VersionOf(dir, j) <= VersionOf(dir, i)

\* C2: in a directory that is empty, or whose entries all decode and none
\* to the queried pair, each of the three lookups returns its empty value
\* ('' , '' , b'') and none raises.
C2_EmptyNeverRaises ==
    (Quiet /\ AllConform(dir) /\ Matching(dir, rres.appid, rres.slot) = {})
    => resp = EmptyValue(rres.kind)

\* C3: the latest version and the latest filename of a pair are the same
\* with the entries that decode to another pair removed, and the filename
\* returned decodes to the queried (slot, appid).
C3_NoMatchIsolation ==
    (Quiet /\ rres.kind \in {"version", "name"})
    => /\ resp = render_get(rres.kind, Isolate(dir, rres.appid, rres.slot),
                            rres.appid, rres.slot)
       /\ (rres.kind = "name" /\ resp.tag = "str" /\ resp.val # <<>>)
          => /\ Conforms(resp.val)
             /\ get_info_from_filename(resp.val)[1] = rres.slot
             /\ get_info_from_filename(resp.val)[2] = rres.appid

\* C4: when files are deleted between the existence check and the open of
\* get_latest_firmware_binary, the call returns a value and raises nothing.
C4_DeletionNeverRaises ==
    (rpc = "done" /\ rfs = "del_open") => resp.tag # "raise"

\* C5: when get_latest_firmware_filename resolves to a file that exists and
\* the directory does not change, the GET on the firmware resource carries
\* exactly the bytes of that file.
C5_BinaryFidelity ==
    \A i \in 1..Len(dir) :
       (Quiet /\ rres.kind = "firmware"
          /\ get_latest_firmware_filename(dir, rres.appid, rres.slot)
               = Str(dir[i].name))
       => /\ resp.tag = "bytes"
          /\ resp.val = dir[i].data
          /\ Len(resp.val) = Len(DataOf(dir[i].name))

\* The firmware resource has answered with the content of the newest of
\* two files.
C5_Witness ==
    /\ Quiet
    /\ rres.kind = "firmware"
    /\ Len(dir) = 2
    /\ resp = Bytes(DataOf(F_a_b_10))

\* Registering f and then any name of the same pair on tree site: the second
\* registration changes nothing, and there is exactly one resource at each
\* of the three paths, bound to the pair.
IdempotentFrom(site) ==
    \A f \in Conforming :
       LET slot == get_info_from_filename(f)[1]
           appid == get_info_from_filename(f)[2]
           once == add_resources(site, f)
       IN  /\ \A g \in SamePair[f] : add_resources(once, g) = once
           /\ ExactlyOneAt(once, VersionPath(appid))
           /\ ExactlyOneAt(once, NamePath(appid, slot))
           /\ ExactlyOneAt(once, FirmwarePath(appid, slot))
           /\ ResourcesAt(once, VersionPath(appid)) =
                {Resource(VersionPath(appid), "version", appid, slot)}
           /\ ResourcesAt(once, NamePath(appid, slot)) =
                {Resource(NamePath(appid, slot), "name", appid, slot)}
           /\ ResourcesAt(once, FirmwarePath(appid, slot)) =
                {Resource(FirmwarePath(appid, slot), "firmware",
                          appid, slot)}

\* C6: registering a second name that decodes to the same (appid, slot)
\* leaves the tree as the first registration left it, with exactly one
\* resource at each of the three paths, each bound to that (appid, slot):
\* from the tree __init__ starts with and from the tree every step that
\* changes it produces.
C6_IdempotentRegistration ==
    [][(pc = "listdir" \/ root_coap' # root_coap)
          => IdempotentFrom(root_coap')]_vars

\* __init__ has registered two names of one pair, one after the other.
C6_Witness ==
    /\ pc = "register"
    /\ initial = <<F_a_b_9, F_a_b_a>>
    /\ todo = <<>>
    /\ root_coap = add_resources(add_resources(EmptyBag, F_a_b_9), F_a_b_a)
    /\ root_coap = add_resources(EmptyBag, F_a_b_9)

\* C7: the transport starts accepting only when every name of the listing
\* __init__ made has its three resources, and a path registered while the
\* transport accepts stays registered.
C7_StartupOrdering ==
    [][/\ (pc # "serving" /\ pc' = "serving")
          => \A i \in 1..Len(initial) :
                /\ Conforms(initial[i])
                /\ HasThreeResources(root_coap', initial[i])
       /\ pc = "serving"
          => \A e \in BagToSet(root_coap) :
                ResourcesAt(root_coap', e.path) # {}]_vars

\* The transport accepts, the two files of the listing registered.
C7_Witness ==
    /\ pc = "serving"
    /\ rpc = "idle"
    /\ listdir(dir) = <<F_a_b_9, F_b_a_10>>
    /\ HasThreeResources(root_coap, F_a_b_9)
    /\ HasThreeResources(root_coap, F_b_a_10)

\* C8: entries the codec cannot decode are skipped: the lookups return what
\* they return without them, and the registration loop of __init__ does not
\* raise.
C8_NonConformingSkipped ==
    /\ pc # "raised"
    /\ Quiet => resp = render_get(rres.kind, ConformingOnly(dir),
                                  rres.appid, rres.slot)

\* C9: in an unchanged directory, when the latest version is not empty the
\* latest filename is not empty and names a file of the directory whose
\* version field is numerically that version.
C9_FilenameFollowsVersion ==
    (Quiet /\ rres.kind = "name"
       /\ get_latest_firmware_version(dir, rres.appid, rres.slot).tag = "str"
       /\ get_latest_firmware_version(dir, rres.appid, rres.slot).val # <<>>)
    => /\ resp.tag = "str"
       /\ resp.val # <<>>
       /\ isfile(dir, resp.val)
       /\ Conforms(resp.val)
       /\ int16(get_info_from_filename(resp.val)[3]) =
            int16(get_latest_firmware_version(dir, rres.appid,
                                              rres.slot).val)

\* C10: there is exactly one version resource per registered appid, at
\* /appid/version, bound to the slot of the name registered last for that
\* appid; name and firmware resources are bound to the slot of their own
\* path; and a GET served by a version resource answers with
\* get_latest_firmware_version of the appid and slot it is bound to.
C10_VersionSlotBinding ==
    /\ \A p \in lastReg :
          /\ ExactlyOneAt(root_coap, VersionPath(p.appid))
          /\ ResourcesAt(root_coap, VersionPath(p.appid)) =
               {Resource(VersionPath(p.appid), "version", p.appid, p.slot)}
    /\ \A e \in BagToSet(root_coap) :
          /\ e.kind = "version" =>
                /\ e.path = VersionPath(e.appid)
                /\ [appid |-> e.appid, slot |-> e.slot] \in lastReg
          /\ e.kind = "name" => e.path = NamePath(e.appid, e.slot)
          /\ e.kind = "firmware" => e.path = FirmwarePath(e.appid, e.slot)
          /\ e.kind \in {"name", "firmware"} => ExactlyOneAt(root_coap, e.path)
    /\ (Quiet /\ rres.kind = "version")
       => resp = get_latest_firmware_version(dir, rres.appid, rres.slot)

\* Slots a and c of appid b are registered, c last; the version resource
\* has answered for slot c.
C10_Witness ==
    /\ Quiet
    /\ rres = Resource(VersionPath(<<"b">>), "version", <<"b">>, <<"c">>)
    /\ ResourcesAt(root_coap, NamePath(<<"b">>, <<"a">>)) # {}
    /\ listdir(dir) = <<F_c_b_9, F_a_b_10>>
    /\ resp = Str(<<"0", "x", "9">>)

====
